---- MODULE Spec2Model ----
(***************************************************************************)
(* Resilience and distributed-coordination layer of libs/infrastructure:   *)
(* circuit breaker, distributed lock, sliding-window rate limiter and OTP  *)
(* verifier, each as a state machine over the shared store / the shared    *)
(* atomics, with one specification per component.                          *)
(***************************************************************************)
EXTENDS Integers, Naturals, Sequences, FiniteSets, TLC

VARIABLES
    clock,              \* wall clock, in ticks (TicksPerSec ticks per second)
    \* ---- circuit breaker (resilience/circuit_breaker.rs)
    config,             \* CircuitBreakerConfig
    state,              \* AtomicU32 state, decoded
    failures,           \* AtomicU64 failures
    successes,          \* AtomicU64 successes
    last_failure_time,  \* AtomicU64 last_failure_time (whole seconds)
    cb_pc,              \* position of each caller inside CircuitBreaker::call
    cb_local,           \* the values each caller has loaded
    cb_hist,            \* history: invocations, opening instant, failure streak
    cb_sequential,      \* TRUE when the callers issue their calls one after another
    \* ---- distributed lock (redis/lock.rs), one key
    lock_rec,           \* the key at the store: NoRec or [exp |-> expiry instant]
    lock_pc,            \* each caller: "idle", "acquiring", "releasing"
    lock_arg,           \* the ttl of the acquire each caller has in flight
    lock_result,        \* what each caller's last acquire / release returned
    lock_held,          \* history: the grant each caller got and whether it gave it up
    lock_hist,          \* history: the grant in force, releases, races
    \* ---- sliding-window rate limiter (redis/rate_limiter.rs), one key
    rl_cfg,             \* the limit and window every caller passes for the key
    rl_zset,            \* the sorted set: members <<now, tag>>, scored by now
    rl_exp,             \* the instant the key expires at the store
    rl_pc,              \* each caller: "idle" or "eval"
    rl_now,             \* the timestamp each caller has read for its EVAL
    rl_log,             \* history: the timestamps of the admitted calls, in order
    rl_last,            \* history: what the last finished call returned
    rl_sequential,      \* TRUE when the callers issue their calls one after another
    \* ---- one-time-code verifier (redis/otp.rs), one key
    otp_max,            \* OtpCache.max_attempts
    otp_rec,            \* the key at the store: NoOtp or the OtpData with its expiry
    otp_pc,             \* position of each caller inside OtpCache::verify
    otp_local,          \* the candidate and the OtpData each caller has read
    otp_last,           \* history: what the last finished verify returned
    otp_hist,           \* history: the issued code and the calls since it was stored
    otp_sequential,     \* TRUE when the callers issue their calls one after another
    \* ---- bulkhead (resilience/bulkhead.rs)
    bh_k,               \* max_concurrent, the capacity
    bh_permits,         \* permits available in the semaphore
    bh_count,           \* AtomicU32 current_count
    bh_queue,           \* the acquires waiting in the semaphore, first come first
    bh_pc,              \* position of each task inside call / try_call
    bh_kind,            \* which of call / try_call each task is in
    bh_rej,             \* history: the last Rejected error returned
    bh_hist,            \* history: the number of abandoned calls
    \* ---- session registry (redis/session.rs)
    sess_rec,           \* the primary key of each session id: NoSession or the record
    sess_index,         \* the reverse set of each user: session ids
    sess_pc,            \* position of each caller inside a session operation
    sess_local,         \* what each caller has read or was called with
    sess_last,          \* history: the effect of the last update_activity
    sess_sequential,    \* TRUE when the callers issue their calls one after another
    sess_calls,         \* history: the number of calls made on the registry
    \* ---- fixed-window rate limiter (redis/rate_limiter.rs)
    fw_cfg,             \* the limit and the window (seconds) of the calls
    fw_keys,            \* the counter keys at the store, by the last segment of the name
    fw_pc,              \* position of the client inside is_allowed
    fw_local,           \* the key and the count is_allowed holds
    fw_last,            \* history: the last call and what it returned
    fw_calls,           \* history: the number of is_allowed calls
    \* ---- retry policy (resilience/retry.rs)
    rt_cfg,             \* RetryPolicy.config
    rt_pc,              \* position inside execute
    rt_backoff,         \* the local backoff of execute
    rt_attempt,         \* the local attempt of execute
    rt_hist             \* history: invocations, failures, waits and result of the execute

cb_vars == <<config, state, failures, successes, last_failure_time,
             cb_pc, cb_local, cb_hist, cb_sequential>>

lock_vars == <<lock_rec, lock_pc, lock_arg, lock_result, lock_held, lock_hist>>

rl_vars == <<rl_cfg, rl_zset, rl_exp, rl_pc, rl_now, rl_log, rl_last, rl_sequential>>

otp_vars == <<otp_max, otp_rec, otp_pc, otp_local, otp_last, otp_hist, otp_sequential>>

bh_vars == <<bh_k, bh_permits, bh_count, bh_queue, bh_pc, bh_kind, bh_rej, bh_hist>>

sess_vars == <<sess_rec, sess_index, sess_pc, sess_local, sess_last, sess_sequential,
              sess_calls>>

fw_vars == <<fw_cfg, fw_keys, fw_pc, fw_local, fw_last, fw_calls>>

rt_vars == <<rt_cfg, rt_pc, rt_backoff, rt_attempt, rt_hist>>

vars == <<clock, cb_vars, lock_vars, rl_vars, otp_vars, bh_vars, sess_vars, fw_vars, rt_vars>>

\* what the steps of one component leave alone
not_cb == <<lock_vars, rl_vars, otp_vars, bh_vars, sess_vars, fw_vars, rt_vars>>
not_lock == <<cb_vars, rl_vars, otp_vars, bh_vars, sess_vars, fw_vars, rt_vars>>
not_rl == <<cb_vars, lock_vars, otp_vars, bh_vars, sess_vars, fw_vars, rt_vars>>
not_otp == <<cb_vars, lock_vars, rl_vars, bh_vars, sess_vars, fw_vars, rt_vars>>
not_bh == <<cb_vars, lock_vars, rl_vars, otp_vars, sess_vars, fw_vars, rt_vars>>
not_sess == <<cb_vars, lock_vars, rl_vars, otp_vars, bh_vars, fw_vars, rt_vars>>
not_fw == <<cb_vars, lock_vars, rl_vars, otp_vars, bh_vars, sess_vars, rt_vars>>
not_rt == <<cb_vars, lock_vars, rl_vars, otp_vars, bh_vars, sess_vars, fw_vars>>

\* ---------------------------------------------------------------- bounds
TicksPerSec == 2
MaxClock == 6
MaxThreshold == 2
MaxTimeoutTicks == 3
MaxCalls == 4
MaxTtl == 2
MaxLimit == 2
MaxWindowSecs == 2
MaxAttempts == 3
MaxStores == 1
MaxPermits == 2
MaxAbandons == 1
SessStepSecs == 86400
SessMaxSecs == 172800
MaxSessCalls == 3
MaxRetries == 2
MaxBackoff == 3
MaxMultiplier == 2
OtpStepSecs == 100
OtpMaxSecs == 700

Callers == {"c1", "c2"}

\* the values math.random(1000000) can return, cut down to two
Tags == {"r1", "r2"}

\* ------------------------------------------------------------------ time
\* SystemTime::now().duration_since(UNIX_EPOCH).unwrap_or_default().as_secs()
NowSecs == clock \div TicksPerSec

\* Duration::from_secs(s), as a Duration in ticks
FromSecs(s) == s * TicksPerSec

Tick ==
    /\ clock < MaxClock
    /\ clock' = clock + 1

\* ======================================================================
\* Distributed lock
\* ======================================================================
NoRec == [exp |-> 0]

\* the store holds the key: it was set and its PX expiry has not passed
LockLive == lock_rec # NoRec /\ clock < lock_rec.exp

NoGrant == [acq |-> FALSE, until |-> 0]

\* RedisLock::new over an empty key
LockNew ==
    /\ lock_rec = NoRec
    /\ lock_pc = [p \in Callers |-> "idle"]
    /\ lock_arg = [p \in Callers |-> 0]
    /\ lock_result = [p \in Callers |-> "none"]
    /\ lock_held = [p \in Callers |-> NoGrant]
    /\ lock_hist = [granted |-> FALSE, until |-> 0, released |-> FALSE,
                    stale_release |-> FALSE, raced |-> FALSE]

\* acquire is called: the SET key "locked" NX PX ttl is on its way to the store
AcquireCall(p, ttl) ==
    /\ lock_pc[p] = "idle"
    /\ lock_pc' = [lock_pc EXCEPT ![p] = "acquiring"]
    /\ lock_arg' = [lock_arg EXCEPT ![p] = ttl]
    /\ lock_result' = [lock_result EXCEPT ![p] = "none"]
    /\ UNCHANGED <<not_lock, clock, lock_rec, lock_held, lock_hist>>

\* SET without the NX condition
SetAlways == TRUE

\* SET ... NX: the write happens only if the key does not exist
SetNxApplies == ~LockLive

\* the store executes the SET NX PX and the reply reaches the caller:
\* Ok(result.is_some()); PX 0 is refused by the store ("invalid expire time")
AcquireExec(p) ==
    /\ lock_pc[p] = "acquiring"
    /\ lock_pc' = [lock_pc EXCEPT ![p] = "idle"]
    /\ IF lock_arg[p] = 0
         THEN /\ lock_result' = [lock_result EXCEPT ![p] = "Err"]
              /\ UNCHANGED <<lock_rec, lock_held, lock_hist>>
         ELSE IF SetNxApplies
           THEN /\ lock_rec' = [exp |-> clock + lock_arg[p]]
                /\ lock_result' = [lock_result EXCEPT ![p] = "true"]
                /\ lock_held' = [lock_held EXCEPT
                                   ![p] = [acq |-> TRUE, until |-> clock + lock_arg[p]]]
                /\ lock_hist' = [lock_hist EXCEPT !.granted = TRUE,
                                                  !.until = clock + lock_arg[p],
                                                  !.released = FALSE,
                                                  !.raced = \E q \in Callers \ {p} :
                                                                lock_pc[q] = "acquiring"]
           ELSE /\ lock_result' = [lock_result EXCEPT ![p] = "false"]
                /\ UNCHANGED <<lock_rec, lock_held, lock_hist>>
    /\ lock_arg' = [lock_arg EXCEPT ![p] = 0]
    /\ UNCHANGED <<not_lock, clock>>

\* release is called by a caller that acquired the lock earlier: the DEL is on
\* its way to the store, and the caller no longer regards itself as the holder
ReleaseCall(p) ==
    /\ lock_pc[p] = "idle"
    /\ lock_held[p].acq
    /\ lock_pc' = [lock_pc EXCEPT ![p] = "releasing"]
    /\ lock_held' = [lock_held EXCEPT ![p].acq = FALSE]
    /\ lock_result' = [lock_result EXCEPT ![p] = "none"]
    /\ UNCHANGED <<not_lock, clock, lock_rec, lock_arg, lock_hist>>

\* the store executes the DEL, whoever set the key: Ok(deleted > 0)
ReleaseExec(p) ==
    /\ lock_pc[p] = "releasing"
    /\ lock_pc' = [lock_pc EXCEPT ![p] = "idle"]
    /\ lock_rec' = NoRec
    /\ lock_result' = [lock_result EXCEPT ![p] = IF LockLive THEN "true" ELSE "false"]
    /\ lock_hist' = [lock_hist EXCEPT !.released = TRUE,
                                      !.stale_release = @ \/ clock >= lock_held[p].until]
    /\ UNCHANGED <<not_lock, clock, lock_arg, lock_held>>

LockTick == Tick /\ UNCHANGED <<not_lock, lock_vars>>

LockNext ==
    \/ LockTick
    \/ \E p \in Callers :
        \/ \E ttl \in 0..MaxTtl : AcquireCall(p, ttl)
        \/ AcquireExec(p)
        \/ ReleaseCall(p)
        \/ ReleaseExec(p)

\* ======================================================================
\* Sliding-window rate limiter
\* ======================================================================
\* std::time::SystemTime::now()...as_millis(), one tick standing for the
\* resolution of the timestamp
NowMillis == clock

\* window.as_secs(), the ARGV[2] of the script
WindowSecs == rl_cfg.window \div TicksPerSec

\* window * 1000 in the script, in ticks
WindowMillis == WindowSecs * TicksPerSec

NoLast == [done |-> FALSE, allowed |-> FALSE, remaining |-> 0, prior |-> 0, total |-> 0,
           late |-> FALSE]

\* RedisRateLimiter::new over an empty key
RlNew ==
    /\ rl_cfg \in [limit : 1..MaxLimit, window : {FromSecs(w) : w \in 1..MaxWindowSecs}]
    /\ rl_zset = {}
    /\ rl_exp = 0
    /\ rl_pc = [p \in Callers |-> "idle"]
    /\ rl_now = [p \in Callers |-> 0]
    /\ rl_log = <<>>
    /\ rl_last = NoLast

\* the members the key holds at the store: none once the key has expired
ZsetLive == IF clock < rl_exp THEN rl_zset ELSE {}

\* redis.call('ZREMRANGEBYSCORE', key, '-inf', now - window * 1000)
ZRemRangeByScore(zset, max) == {m \in zset : m[1] > max}

\* redis.call('ZADD', key, now, now .. ':' .. math.random(1000000))
ZAdd(zset, now, tag) == zset \cup {<<now, tag>>}

\* the admitted calls whose timestamp lies in the window (now - window, now]
AdmittedInWindow(now) ==
    Cardinality({i \in DOMAIN rl_log : rl_log[i] > now - rl_cfg.window /\ rl_log[i] <= now})

\* is_allowed: the caller reads `now` and sends the EVAL
IsAllowedCall(p) ==
    /\ rl_pc[p] = "idle"
    /\ Len(rl_log) < MaxCalls
    /\ rl_sequential => \A q \in Callers : rl_pc[q] = "idle"
    /\ rl_pc' = [rl_pc EXCEPT ![p] = "eval"]
    /\ rl_now' = [rl_now EXCEPT ![p] = NowMillis]
    /\ UNCHANGED <<not_rl, clock, rl_cfg, rl_zset, rl_exp, rl_log, rl_last, rl_sequential>>

\* if count < limit
BelowLimit(count) == count < rl_cfg.limit

\* return {1, limit - count - 1}
RemainingAfter(count) == rl_cfg.limit - count - 1

\* the store runs the Lua script atomically and the caller parses the reply
\* into (allowed == 1, remaining)
IsAllowedEval(p, tag) ==
    /\ rl_pc[p] = "eval"
    /\ LET now == rl_now[p]
           pruned == ZRemRangeByScore(ZsetLive, now - WindowMillis)
           count == Cardinality(pruned)
       IN  IF BelowLimit(count)
             THEN /\ rl_zset' = ZAdd(pruned, now, tag)
                  /\ rl_exp' = clock + WindowSecs * TicksPerSec
                  /\ rl_log' = Append(rl_log, now)
                  /\ rl_last' = [done |-> TRUE, allowed |-> TRUE,
                                 remaining |-> RemainingAfter(count),
                                 prior |-> AdmittedInWindow(now), total |-> Len(rl_log),
                                 late |-> rl_last.late \/ clock > now]
             ELSE /\ rl_zset' = pruned
                  /\ rl_exp' = IF pruned = {} THEN 0 ELSE rl_exp
                  /\ rl_log' = rl_log
                  /\ rl_last' = [done |-> TRUE, allowed |-> FALSE, remaining |-> 0,
                                 prior |-> AdmittedInWindow(now), total |-> Len(rl_log),
                                 late |-> rl_last.late \/ clock > now]
    /\ rl_pc' = [rl_pc EXCEPT ![p] = "idle"]
    /\ rl_now' = [rl_now EXCEPT ![p] = 0]
    /\ UNCHANGED <<not_rl, clock, rl_cfg, rl_sequential>>

RlTick == Tick /\ UNCHANGED <<not_rl, rl_vars>>

RlNext ==
    \/ RlTick
    \/ \E p \in Callers :
        \/ IsAllowedCall(p)
        \/ \E tag \in Tags : IsAllowedEval(p, tag)

\* ======================================================================
\* Circuit breaker
\* ======================================================================
CircuitBreakerState == {"Closed", "Open", "HalfOpen"}

CircuitBreakerConfig ==
    [failure_threshold : 1..MaxThreshold,
     success_threshold : 1..MaxThreshold,
     timeout : 1..MaxTimeoutTicks]

\* the configuration the specifications of the other components leave in place
IdleConfig == [failure_threshold |-> 1, success_threshold |-> 1, timeout |-> 1]

\* a caller outside call holds no loaded values
NoLocal == [last_failure |-> 0, count |-> 0, entry |-> "Closed"]

\* CircuitBreaker::new
CbNew ==
    /\ config \in CircuitBreakerConfig
    /\ state = "Closed"
    /\ failures = 0
    /\ successes = 0
    /\ last_failure_time = 0
    /\ cb_pc = [p \in Callers |-> "idle"]
    /\ cb_local = [p \in Callers |-> NoLocal]
    /\ cb_hist = [invocations |-> 0, calls |-> 0, opened_at |-> 0, streak |-> 0,
                  probe_ok |-> 0, last_entry |-> "none", last_result |-> "none"]

\* no call is in flight
CbQuiescent == \A p \in Callers : cb_pc[p] = "idle"

\* the call returns `r` to caller p
CbReturn(p, r) ==
    /\ cb_pc' = [cb_pc EXCEPT ![p] = "idle"]
    /\ cb_local' = [cb_local EXCEPT ![p] = NoLocal]
    /\ cb_hist' = [cb_hist EXCEPT !.last_entry = cb_local[p].entry,
                                  !.last_result = r]

CbGoto(p, l) == cb_pc' = [cb_pc EXCEPT ![p] = l]

\* call: let state = self.state(); match state { ... }
CallLoadState(p) ==
    /\ cb_pc[p] = "idle"
    /\ cb_hist.calls < MaxCalls
    /\ cb_sequential => CbQuiescent
    /\ cb_local' = [cb_local EXCEPT ![p].entry = state]
    /\ CbGoto(p, IF state = "Open" THEN "sar_load" ELSE "exec")
    /\ cb_hist' = [cb_hist EXCEPT !.calls = @ + 1]
    /\ UNCHANGED <<not_cb, clock, cb_sequential, config, state, failures, successes, last_failure_time>>

\* should_attempt_reset: let last_failure = self.last_failure_time.load(..)
ShouldAttemptResetLoad(p) ==
    /\ cb_pc[p] = "sar_load"
    /\ cb_local' = [cb_local EXCEPT ![p].last_failure = last_failure_time]
    /\ CbGoto(p, "sar_now")
    /\ UNCHANGED <<not_cb, clock, cb_sequential, config, state, failures, successes, last_failure_time,
                   cb_hist>>

\* elapsed >= self.config.timeout, elapsed = Duration::from_secs(now - last_failure)
TimeoutElapsed(now, last_failure) == FromSecs(now - last_failure) >= config.timeout

\* should_attempt_reset: now is read and the decision taken; when it is false
\* call returns Err(CircuitBreakerError::Open)
ShouldAttemptResetNow(p) ==
    /\ cb_pc[p] = "sar_now"
    /\ IF TimeoutElapsed(NowSecs, cb_local[p].last_failure)
         THEN /\ CbGoto(p, "tho_state")
              /\ UNCHANGED <<cb_local, cb_hist>>
         ELSE CbReturn(p, "Open")
    /\ UNCHANGED <<not_cb, clock, cb_sequential, config, state, failures, successes, last_failure_time>>

\* transition_to_half_open: self.state.store(2)
TransitionToHalfOpenState(p) ==
    /\ cb_pc[p] = "tho_state"
    /\ state' = "HalfOpen"
    /\ CbGoto(p, "tho_successes")
    /\ cb_hist' = [cb_hist EXCEPT !.probe_ok = 0]
    /\ UNCHANGED <<not_cb, clock, cb_sequential, config, failures, successes, last_failure_time, cb_local>>

\* transition_to_half_open: self.successes.store(0)
TransitionToHalfOpenSuccesses(p) ==
    /\ cb_pc[p] = "tho_successes"
    /\ successes' = 0
    /\ CbGoto(p, "exec")
    /\ UNCHANGED <<not_cb, clock, cb_sequential, config, state, failures, last_failure_time,
                   cb_local, cb_hist>>

\* execute_call: match f().await; the wrapped operation runs and succeeds or fails
ExecuteCall(p, ok) ==
    /\ cb_pc[p] = "exec"
    /\ CbGoto(p, IF ok THEN "rs_load" ELSE "rf_load")
    /\ cb_hist' = [cb_hist EXCEPT !.invocations = @ + 1,
                                  !.streak = IF ok THEN 0 ELSE @ + 1,
                                  !.probe_ok = IF ok THEN @ + 1 ELSE @]
    /\ UNCHANGED <<not_cb, clock, cb_sequential, config, state, failures, successes, last_failure_time,
                   cb_local>>

\* record_success: let state = self.state(); match state
RecordSuccessLoad(p) ==
    /\ cb_pc[p] = "rs_load"
    /\ IF state = "Open"
         THEN CbReturn(p, "Ok")
         ELSE /\ CbGoto(p, IF state = "Closed" THEN "rs_reset" ELSE "rs_add")
              /\ UNCHANGED <<cb_local, cb_hist>>
    /\ UNCHANGED <<not_cb, clock, cb_sequential, config, state, failures, successes, last_failure_time>>

\* record_success, Closed: self.failures.store(0)
RecordSuccessReset(p) ==
    /\ cb_pc[p] = "rs_reset"
    /\ failures' = 0
    /\ CbReturn(p, "Ok")
    /\ UNCHANGED <<not_cb, clock, cb_sequential, config, state, successes, last_failure_time>>

\* successes >= self.config.success_threshold as u64
SuccessThresholdReached(n) == n >= config.success_threshold

\* record_success, HalfOpen: self.successes.fetch_add(1) + 1, compared
RecordSuccessAdd(p) ==
    /\ cb_pc[p] = "rs_add"
    /\ successes' = successes + 1
    /\ IF SuccessThresholdReached(successes + 1)
         THEN /\ CbGoto(p, "tc_state")
              /\ UNCHANGED <<cb_local, cb_hist>>
         ELSE CbReturn(p, "Ok")
    /\ UNCHANGED <<not_cb, clock, cb_sequential, config, state, failures, last_failure_time>>

\* transition_to_closed: self.state.store(0)
TransitionToClosedState(p) ==
    /\ cb_pc[p] = "tc_state"
    /\ state' = "Closed"
    /\ CbGoto(p, "tc_failures")
    /\ UNCHANGED <<not_cb, clock, cb_sequential, config, failures, successes, last_failure_time,
                   cb_local, cb_hist>>

\* transition_to_closed: self.failures.store(0)
TransitionToClosedFailures(p) ==
    /\ cb_pc[p] = "tc_failures"
    /\ failures' = 0
    /\ CbGoto(p, "tc_successes")
    /\ UNCHANGED <<not_cb, clock, cb_sequential, config, state, successes, last_failure_time,
                   cb_local, cb_hist>>

\* transition_to_closed: self.successes.store(0); execute_call returns Ok
TransitionToClosedSuccesses(p) ==
    /\ cb_pc[p] = "tc_successes"
    /\ successes' = 0
    /\ CbReturn(p, "Ok")
    /\ UNCHANGED <<not_cb, clock, cb_sequential, config, state, failures, last_failure_time>>

\* record_failure: let state = self.state(); match state
RecordFailureLoad(p) ==
    /\ cb_pc[p] = "rf_load"
    /\ IF state = "Open"
         THEN CbReturn(p, "ExecutionError")
         ELSE /\ CbGoto(p, IF state = "Closed" THEN "rf_add" ELSE "to_state")
              /\ UNCHANGED <<cb_local, cb_hist>>
    /\ UNCHANGED <<not_cb, clock, cb_sequential, config, state, failures, successes, last_failure_time>>

\* record_failure, Closed: let failures = self.failures.fetch_add(1) + 1
RecordFailureAdd(p) ==
    /\ cb_pc[p] = "rf_add"
    /\ failures' = failures + 1
    /\ cb_local' = [cb_local EXCEPT ![p].count = failures + 1]
    /\ CbGoto(p, "rf_time")
    /\ UNCHANGED <<not_cb, clock, cb_sequential, config, state, successes, last_failure_time, cb_hist>>

\* the comparison with > in place of >=
FailureThresholdOffByOne(n) == n > config.failure_threshold

\* failures >= self.config.failure_threshold as u64
FailureThresholdReached(n) == n >= config.failure_threshold

\* record_failure, Closed: self.last_failure_time.store(now), then the comparison
RecordFailureTime(p) ==
    /\ cb_pc[p] = "rf_time"
    /\ last_failure_time' = NowSecs
    /\ IF FailureThresholdReached(cb_local[p].count)
         THEN /\ CbGoto(p, "to_state")
              /\ UNCHANGED <<cb_local, cb_hist>>
         ELSE CbReturn(p, "ExecutionError")
    /\ UNCHANGED <<not_cb, clock, cb_sequential, config, state, failures, successes>>

\* transition_to_open: self.state.store(1)
TransitionToOpenState(p) ==
    /\ cb_pc[p] = "to_state"
    /\ state' = "Open"
    /\ CbGoto(p, "to_time")
    /\ UNCHANGED <<not_cb, clock, cb_sequential, config, failures, successes, last_failure_time,
                   cb_local, cb_hist>>

\* transition_to_open: self.last_failure_time.store(now); execute_call returns Err
TransitionToOpenTime(p) ==
    /\ cb_pc[p] = "to_time"
    /\ last_failure_time' = NowSecs
    /\ cb_pc' = [cb_pc EXCEPT ![p] = "idle"]
    /\ cb_local' = [cb_local EXCEPT ![p] = NoLocal]
    /\ cb_hist' = [cb_hist EXCEPT !.last_entry = cb_local[p].entry,
                                  !.last_result = "ExecutionError",
                                  !.opened_at = clock]
    /\ UNCHANGED <<not_cb, clock, cb_sequential, config, state, failures, successes>>

CbTick == Tick /\ UNCHANGED <<not_cb, cb_vars>>

\* callers sharing one breaker, interleaved at every atomic operation
CbNext ==
    \/ CbTick
    \/ \E p \in Callers :
        \/ CallLoadState(p)
        \/ ShouldAttemptResetLoad(p)
        \/ ShouldAttemptResetNow(p)
        \/ TransitionToHalfOpenState(p)
        \/ TransitionToHalfOpenSuccesses(p)
        \/ \E ok \in BOOLEAN : ExecuteCall(p, ok)
        \/ RecordSuccessLoad(p)
        \/ RecordSuccessReset(p)
        \/ RecordSuccessAdd(p)
        \/ TransitionToClosedState(p)
        \/ TransitionToClosedFailures(p)
        \/ TransitionToClosedSuccesses(p)
        \/ RecordFailureLoad(p)
        \/ RecordFailureAdd(p)
        \/ RecordFailureTime(p)
        \/ TransitionToOpenState(p)
        \/ TransitionToOpenTime(p)

\* ======================================================================
\* One-time-code verifier (redis/otp.rs over redis/cache.rs), one key
\* (one identifier and purpose)

\* the codes store and verify are called with
Codes == {"111111", "222222"}

\* the ttl values store is called with, whole seconds
OtpTtlSecs == {200, 600}

\* Duration::from_secs(300), the ttl of the rewrite after a mismatch
RewriteTtlSecs == 300

\* the key absent at the store
NoOtp == [present |-> FALSE, code |-> "", attempts |-> 0, exp |-> 0]

\* RedisCache::get finds the key: it was set, not deleted, and has not expired
OtpLive == otp_rec.present /\ clock < otp_rec.exp

NoOtpLocal == [cand |-> "", code |-> "", attempts |-> 0, in_lease |-> FALSE]

NoVerify == [done |-> FALSE, matches |-> FALSE, result |-> "none", remaining |-> 0,
             wrong_before |-> 0, valid_before |-> 0, in_lease |-> FALSE]

NoIssue == [issued |-> FALSE, code |-> "", calls |-> 0, wrong |-> 0, valids |-> 0,
            lease |-> 0, stores |-> 0, issued_until |-> 0, answers |-> 0]

\* OtpCache::new(pool, prefix, max_attempts), nothing stored yet
OtpNew ==
    /\ otp_max \in 0..MaxAttempts
    /\ otp_rec = NoOtp
    /\ otp_pc = [p \in Callers |-> "idle"]
    /\ otp_local = [p \in Callers |-> NoOtpLocal]
    /\ otp_last = NoVerify
    /\ otp_hist = NoIssue

OtpQuiescent == \A p \in Callers : otp_pc[p] = "idle"

\* RedisCache::set: SET key data EX ttl.as_secs()
CacheSet(code, attempts, ttl_secs) ==
    otp_rec' = [present |-> TRUE, code |-> code, attempts |-> attempts,
                exp |-> clock + FromSecs(ttl_secs)]

\* RedisCache::delete: DEL key
CacheDelete == otp_rec' = NoOtp

\* OtpCache::store: a record with attempts 0, set with the caller's ttl
Store(p, code, ttl_secs) ==
    /\ otp_pc[p] = "idle"
    /\ otp_sequential => OtpQuiescent
    /\ otp_hist.stores < MaxStores
    /\ CacheSet(code, 0, ttl_secs)
    /\ otp_hist' = [issued |-> TRUE, code |-> code, calls |-> 0, wrong |-> 0,
                    valids |-> 0, lease |-> clock + FromSecs(ttl_secs),
                    stores |-> otp_hist.stores + 1,
                    issued_until |-> clock + FromSecs(ttl_secs), answers |-> 0]
    /\ otp_last' = NoVerify
    /\ UNCHANGED <<clock, otp_max, otp_pc, otp_local, otp_sequential, not_otp>>

\* a verify call returns: the result is recorded with the counts before it
OtpReturn(p, result, remaining, lease) ==
    /\ otp_pc' = [otp_pc EXCEPT ![p] = "idle"]
    /\ otp_local' = [otp_local EXCEPT ![p] = NoOtpLocal]
    /\ otp_last' = [done |-> TRUE,
                    matches |-> otp_hist.issued /\ otp_local[p].cand = otp_hist.code,
                    result |-> result, remaining |-> remaining,
                    wrong_before |-> otp_hist.wrong,
                    valid_before |-> otp_hist.valids,
                    in_lease |-> otp_local[p].in_lease]
    /\ otp_hist' = [otp_hist EXCEPT
                       !.wrong = IF otp_local[p].cand # otp_hist.code THEN @ + 1 ELSE @,
                       !.valids = IF result = "Valid" THEN @ + 1 ELSE @,
                       !.answers = IF otp_local[p].cand # otp_hist.code
                                      /\ result \in {"Invalid", "MaxAttemptsExceeded"}
                                     THEN @ + 1 ELSE @,
                       !.lease = lease]

AttemptsAlmostExhausted(attempts) == attempts + 1 >= otp_max

\* data.attempts >= self.max_attempts, on a matching code
AttemptsExhausted(attempts) == attempts >= otp_max

AttemptsPastMax(attempts) == attempts > otp_max

\* updated_data.attempts >= self.max_attempts, after a mismatch
AttemptsReachedMax(attempts) == attempts >= otp_max

\* OtpCache::verify up to its first store command: the GET and the match on it
VerifyGet(p, cand) ==
    /\ otp_pc[p] = "idle"
    /\ otp_sequential => OtpQuiescent
    /\ otp_hist.calls < MaxCalls
    /\ IF OtpLive
         THEN /\ otp_local' = [otp_local EXCEPT ![p] =
                     [cand |-> cand, code |-> otp_rec.code,
                      attempts |-> otp_rec.attempts,
                      in_lease |-> clock < otp_hist.lease]]
              /\ otp_pc' = [otp_pc EXCEPT ![p] =
                     IF otp_rec.code = cand
                       THEN IF AttemptsExhausted(otp_rec.attempts)
                              THEN "delete_exhausted" ELSE "delete_valid"
                       ELSE "set"]
              /\ otp_hist' = [otp_hist EXCEPT !.calls = @ + 1]
              /\ UNCHANGED otp_last
         ELSE /\ otp_pc' = otp_pc
              /\ otp_local' = otp_local
              /\ otp_last' = [done |-> TRUE,
                              matches |-> otp_hist.issued /\ cand = otp_hist.code,
                              result |-> "NotFound", remaining |-> 0,
                              wrong_before |-> otp_hist.wrong,
                              valid_before |-> otp_hist.valids,
                              in_lease |-> clock < otp_hist.lease]
              /\ otp_hist' = [otp_hist EXCEPT
                                 !.calls = @ + 1,
                                 !.wrong = IF cand # otp_hist.code THEN @ + 1 ELSE @]
    /\ UNCHANGED <<clock, otp_max, otp_rec, otp_sequential, not_otp>>

\* matching code, attempts used up: delete, MaxAttemptsExceeded
VerifyDeleteExhausted(p) ==
    /\ otp_pc[p] = "delete_exhausted"
    /\ CacheDelete
    /\ OtpReturn(p, "MaxAttemptsExceeded", 0, otp_hist.lease)
    /\ UNCHANGED <<clock, otp_max, otp_sequential, not_otp>>

\* matching code: delete, Valid
VerifyDeleteValid(p) ==
    /\ otp_pc[p] = "delete_valid"
    /\ CacheDelete
    /\ OtpReturn(p, "Valid", 0, otp_hist.lease)
    /\ UNCHANGED <<clock, otp_max, otp_sequential, not_otp>>

\* mismatch: attempts += 1 (u8) and the record set again with the fixed ttl;
\* Invalid with what is left unless the maximum is reached
VerifySet(p) ==
    /\ otp_pc[p] = "set"
    /\ LET updated == (otp_local[p].attempts + 1) % 256 IN
         /\ CacheSet(otp_local[p].code, updated, RewriteTtlSecs)
         /\ IF AttemptsReachedMax(updated)
              THEN /\ otp_pc' = [otp_pc EXCEPT ![p] = "delete_exceeded"]
                   /\ otp_hist' = [otp_hist EXCEPT
                                      !.lease = clock + FromSecs(RewriteTtlSecs)]
                   /\ UNCHANGED <<otp_local, otp_last>>
              ELSE OtpReturn(p, "Invalid", otp_max - updated,
                             clock + FromSecs(RewriteTtlSecs))
    /\ UNCHANGED <<clock, otp_max, otp_sequential, not_otp>>

\* mismatch that reached the maximum: delete, MaxAttemptsExceeded
VerifyDeleteExceeded(p) ==
    /\ otp_pc[p] = "delete_exceeded"
    /\ CacheDelete
    /\ OtpReturn(p, "MaxAttemptsExceeded", 0, otp_hist.lease)
    /\ UNCHANGED <<clock, otp_max, otp_sequential, not_otp>>

\* time passes at the store, OtpStepSecs seconds at a time; a call made in
\* sequence with the others completes within one such step
OtpAdvance ==
    /\ clock + FromSecs(OtpStepSecs) <= FromSecs(OtpMaxSecs)
    /\ otp_sequential => OtpQuiescent
    /\ clock' = clock + FromSecs(OtpStepSecs)
    /\ UNCHANGED <<otp_vars, not_otp>>

OtpNext ==
    \/ OtpAdvance
    \/ \E p \in Callers :
        \/ \E code \in Codes, ttl_secs \in OtpTtlSecs : Store(p, code, ttl_secs)
        \/ \E cand \in Codes : VerifyGet(p, cand)
        \/ VerifyDeleteExhausted(p)
        \/ VerifyDeleteValid(p)
        \/ VerifySet(p)
        \/ VerifyDeleteExceeded(p)

\* ======================================================================
\* Bulkhead (resilience/bulkhead.rs): a tokio Semaphore and an AtomicU32

\* the tasks that share one Bulkhead (it is Clone, the fields are Arcs)
Tasks == {"t1", "t2", "t3"}

NoRejected == [seen |-> FALSE, max |-> 0, current |-> 0]

NoBhHist == [abandons |-> 0]

\* Bulkhead::new(BulkheadConfig { max_concurrent })
BulkheadNew ==
    /\ bh_k \in 1..MaxPermits
    /\ bh_permits = bh_k
    /\ bh_count = 0
    /\ bh_queue = <<>>
    /\ bh_pc = [t \in Tasks |-> "idle"]
    /\ bh_kind = [t \in Tasks |-> "call"]
    /\ bh_rej = NoRejected
    /\ bh_hist = NoBhHist

\* Semaphore: a permit is free
PermitFree == bh_permits > 0

\* the tasks that hold a permit
PermitHolders == {t \in Tasks : bh_pc[t] \in {"granted", "acquired", "running",
                                              "returned", "subbed"}}

\* the tasks whose wrapped operation is executing
Executing == {t \in Tasks : bh_pc[t] = "running"}

\* where call goes when no permit is free: semaphore.acquire().await waits
CallOnNoPermitRejects == "rejected"

CallOnNoPermit == "waiting"

\* Bulkhead::call, up to semaphore.acquire(): take a free permit or queue up
Call(t) ==
    /\ bh_pc[t] = "idle"
    /\ bh_kind' = [bh_kind EXCEPT ![t] = "call"]
    /\ IF PermitFree
         THEN /\ bh_permits' = bh_permits - 1
              /\ bh_pc' = [bh_pc EXCEPT ![t] = "acquired"]
              /\ UNCHANGED bh_queue
         ELSE /\ bh_pc' = [bh_pc EXCEPT ![t] = CallOnNoPermit]
              /\ bh_queue' = Append(bh_queue, t)
              /\ UNCHANGED bh_permits
    /\ UNCHANGED <<clock, bh_k, bh_count, bh_rej, bh_hist, not_bh>>

\* a queued acquire that was handed a permit is polled again
CallResume(t) ==
    /\ bh_pc[t] = "granted"
    /\ bh_pc' = [bh_pc EXCEPT ![t] = "acquired"]
    /\ UNCHANGED <<clock, bh_k, bh_permits, bh_count, bh_queue, bh_kind, bh_rej,
                   bh_hist, not_bh>>

\* Bulkhead::try_call, semaphore.try_acquire()
TryCall(t) ==
    /\ bh_pc[t] = "idle"
    /\ bh_kind' = [bh_kind EXCEPT ![t] = "try_call"]
    /\ IF PermitFree
         THEN /\ bh_permits' = bh_permits - 1
              /\ bh_pc' = [bh_pc EXCEPT ![t] = "acquired"]
         ELSE /\ bh_pc' = [bh_pc EXCEPT ![t] = "rejected"]
              /\ UNCHANGED bh_permits
    /\ UNCHANGED <<clock, bh_k, bh_count, bh_queue, bh_rej, bh_hist, not_bh>>

\* try_call, Err branch: current_count.load, Rejected { max, current }
TryCallRejected(t) ==
    /\ bh_pc[t] = "rejected"
    /\ bh_rej' = [seen |-> TRUE, max |-> bh_k, current |-> bh_count]
    /\ bh_pc' = [bh_pc EXCEPT ![t] = "idle"]
    /\ UNCHANGED <<clock, bh_k, bh_permits, bh_count, bh_queue, bh_kind, bh_hist, not_bh>>

\* current_count.fetch_add(1), then the operation starts
FetchAdd(t) ==
    /\ bh_pc[t] = "acquired"
    /\ bh_count' = bh_count + 1
    /\ bh_pc' = [bh_pc EXCEPT ![t] = "running"]
    /\ UNCHANGED <<clock, bh_k, bh_permits, bh_queue, bh_kind, bh_rej, bh_hist, not_bh>>

\* the wrapped operation returns its value; a success and an error value are
\* the same to the bulkhead, which passes the value through as Ok(result)
OperationReturns(t) ==
    /\ bh_pc[t] = "running"
    /\ bh_pc' = [bh_pc EXCEPT ![t] = "returned"]
    /\ UNCHANGED <<clock, bh_k, bh_permits, bh_count, bh_queue, bh_kind, bh_rej,
                   bh_hist, not_bh>>

\* current_count.fetch_sub(1); it follows the task's own fetch_add, so the
\* counter is positive here and does not wrap
FetchSub(t) ==
    /\ bh_pc[t] = "returned"
    /\ bh_count' = bh_count - 1
    /\ bh_pc' = [bh_pc EXCEPT ![t] = "subbed"]
    /\ UNCHANGED <<clock, bh_k, bh_permits, bh_queue, bh_kind, bh_rej, bh_hist, not_bh>>

PermitsKept == bh_permits

\* Semaphore::add_permits(1) with nobody queued
PermitsReturned == bh_permits + 1

NotWoken == "waiting"

\* the queued acquire that is handed a permit is woken
Woken == "granted"

\* the permit of task t is dropped: it goes to the first queued acquire, or
\* back to the semaphore when nobody is queued; t is out of the bulkhead
DropPermit(t) ==
    /\ IF bh_queue = <<>>
         THEN /\ bh_permits' = PermitsReturned
              /\ bh_pc' = [bh_pc EXCEPT ![t] = "idle"]
              /\ UNCHANGED bh_queue
         ELSE /\ bh_pc' = [bh_pc EXCEPT ![t] = "idle", ![Head(bh_queue)] = Woken]
              /\ bh_queue' = Tail(bh_queue)
              /\ UNCHANGED bh_permits

\* the end of call / try_call: _permit goes out of scope, Ok(result)
Return(t) ==
    /\ bh_pc[t] = "subbed"
    /\ DropPermit(t)
    /\ UNCHANGED <<clock, bh_k, bh_count, bh_kind, bh_rej, bh_hist, not_bh>>

\* a call is abandoned: its future is dropped at an await point (while queued,
\* while handed a permit but not yet polled, while the operation runs), or
\* the operation of a try_call panics; locals are dropped, no code after the
\* await runs
Abandon(t) ==
    /\ bh_hist.abandons < MaxAbandons
    /\ \/ /\ bh_pc[t] = "waiting"
          /\ bh_queue' = SelectSeq(bh_queue, LAMBDA q : q # t)
          /\ bh_pc' = [bh_pc EXCEPT ![t] = "idle"]
          /\ UNCHANGED bh_permits
       \/ /\ bh_pc[t] \in {"granted", "running"}
          /\ DropPermit(t)
    /\ bh_hist' = [abandons |-> bh_hist.abandons + 1]
    /\ UNCHANGED <<clock, bh_k, bh_count, bh_kind, bh_rej, not_bh>>

\* the steps that a scheduled task takes by itself
BhProgress(t) ==
    \/ CallResume(t)
    \/ TryCallRejected(t)
    \/ FetchAdd(t)
    \/ OperationReturns(t)
    \/ FetchSub(t)
    \/ Return(t)

BhNext ==
    \E t \in Tasks :
        \/ Call(t)
        \/ TryCall(t)
        \/ Abandon(t)
        \/ CallResume(t)
        \/ TryCallRejected(t)
        \/ FetchAdd(t)
        \/ OperationReturns(t)
        \/ FetchSub(t)
        \/ Return(t)

\* ======================================================================
\* Session registry (redis/session.rs): primary records and the reverse sets

Sids == {"s1", "s2"}

Users == {"u1", "u2"}

\* the ttl values save_session is called with, whole seconds (1 h, 48 h)
SessTtlSecs == {3600, 172800}

\* EXPIRE key 86400, the ttl update_activity sets
RefreshTtlSecs == 86400

\* the primary key absent at the store
NoSession == [present |-> FALSE, user_id |-> "", exp |-> 0]

\* GET session_key finds the record
SessLive(sid) == sess_rec[sid].present /\ clock < sess_rec[sid].exp

\* the time a primary record has left to live at the store, in ticks; 0 when
\* the key is absent
TtlOf(rec) == IF rec.present /\ clock < rec.exp THEN rec.exp - clock ELSE 0

NoSessLocal == [sid |-> "", user_id |-> "", ids |-> {}]

NoRefresh == [done |-> FALSE, live_before |-> FALSE, shortened |-> FALSE,
              extended |-> FALSE, same_payload |-> TRUE, present_after |-> FALSE]

\* RedisSessionStore::new over an empty store
SessionStoreNew ==
    /\ sess_rec = [s \in Sids |-> NoSession]
    /\ sess_index = [u \in Users |-> {}]
    /\ sess_pc = [p \in Callers |-> "idle"]
    /\ sess_local = [p \in Callers |-> NoSessLocal]
    /\ sess_last = NoRefresh
    /\ sess_calls = 0

SessQuiescent == \A p \in Callers : sess_pc[p] = "idle"

SessStart(p) ==
    /\ sess_pc[p] = "idle"
    /\ sess_sequential => SessQuiescent
    /\ sess_calls < MaxSessCalls
    /\ sess_calls' = sess_calls + 1

SessGoto(p, l, loc) ==
    /\ sess_pc' = [sess_pc EXCEPT ![p] = l]
    /\ sess_local' = [sess_local EXCEPT ![p] = loc]

SessReturn(p) == SessGoto(p, "idle", NoSessLocal)

\* save_session: SET session_key data EX ttl.as_secs()
SaveSessionSet(p, sid, user_id, ttl_secs) ==
    /\ SessStart(p)
    /\ sess_rec' = [sess_rec EXCEPT ![sid] =
           [present |-> TRUE, user_id |-> user_id, exp |-> clock + FromSecs(ttl_secs)]]
    /\ SessGoto(p, "sadd", [sid |-> sid, user_id |-> user_id, ids |-> {}])
    /\ UNCHANGED <<clock, sess_index, sess_last, sess_sequential, not_sess>>

\* save_session: SADD user_sessions_key(session.user_id) key
SaveSessionSadd(p) ==
    /\ sess_pc[p] = "sadd"
    /\ sess_index' = [sess_index EXCEPT ![sess_local[p].user_id] =
                         @ \cup {sess_local[p].sid}]
    /\ SessReturn(p)
    /\ UNCHANGED <<clock, sess_rec, sess_last, sess_sequential, sess_calls,
                   not_sess>>

\* delete_session: get_session(key), to learn the owning user
DeleteSessionGet(p, sid) ==
    /\ SessStart(p)
    /\ IF SessLive(sid)
         THEN SessGoto(p, "srem", [sid |-> sid, user_id |-> sess_rec[sid].user_id,
                                   ids |-> {}])
         ELSE SessGoto(p, "del", [sid |-> sid, user_id |-> "", ids |-> {}])
    /\ UNCHANGED <<clock, sess_rec, sess_index, sess_last, sess_sequential, not_sess>>

\* delete_session: SREM user_sessions_key(s.user_id) key
DeleteSessionSrem(p) ==
    /\ sess_pc[p] = "srem"
    /\ sess_index' = [sess_index EXCEPT ![sess_local[p].user_id] =
                         @ \ {sess_local[p].sid}]
    /\ SessGoto(p, "del", sess_local[p])
    /\ UNCHANGED <<clock, sess_rec, sess_last, sess_sequential, sess_calls,
                   not_sess>>

\* delete_session: DEL session_key
DeleteSessionDel(p) ==
    /\ sess_pc[p] = "del"
    /\ sess_rec' = [sess_rec EXCEPT ![sess_local[p].sid] = NoSession]
    /\ SessReturn(p)
    /\ UNCHANGED <<clock, sess_index, sess_last, sess_sequential, sess_calls,
                   not_sess>>

\* update_activity: EXPIRE session_key 86400
UpdateActivity(p, sid) ==
    /\ SessStart(p)
    /\ sess_rec' = IF SessLive(sid)
                     THEN [sess_rec EXCEPT ![sid].exp = clock + FromSecs(RefreshTtlSecs)]
                     ELSE sess_rec
    /\ sess_last' = [done |-> TRUE,
                     live_before |-> SessLive(sid),
                     shortened |-> TtlOf(sess_rec'[sid]) < TtlOf(sess_rec[sid]),
                     extended |-> TtlOf(sess_rec'[sid]) > TtlOf(sess_rec[sid]),
                     same_payload |-> sess_rec'[sid].user_id = sess_rec[sid].user_id,
                     present_after |-> TtlOf(sess_rec'[sid]) > 0]
    /\ UNCHANGED <<clock, sess_index, sess_pc, sess_local, sess_sequential, not_sess>>

\* delete_user_sessions: SMEMBERS user_sessions_key(user_id)
DeleteUserSessionsMembers(p, user_id) ==
    /\ SessStart(p)
    /\ SessGoto(p, "du_del", [sid |-> "", user_id |-> user_id,
                              ids |-> sess_index[user_id]])
    /\ UNCHANGED <<clock, sess_rec, sess_index, sess_last, sess_sequential, not_sess>>

\* delete_user_sessions: DEL session_key(session_id), for each id read
DeleteUserSessionsDel(p, sid) ==
    /\ sess_pc[p] = "du_del"
    /\ sid \in sess_local[p].ids
    /\ sess_rec' = [sess_rec EXCEPT ![sid] = NoSession]
    /\ SessGoto(p, "du_del", [sess_local[p] EXCEPT !.ids = @ \ {sid}])
    /\ UNCHANGED <<clock, sess_index, sess_last, sess_sequential, sess_calls,
                   not_sess>>

\* delete_user_sessions: DEL user_sessions_key(user_id)
DeleteUserSessionsDelSet(p) ==
    /\ sess_pc[p] = "du_del"
    /\ sess_local[p].ids = {}
    /\ sess_index' = [sess_index EXCEPT ![sess_local[p].user_id] = {}]
    /\ SessReturn(p)
    /\ UNCHANGED <<clock, sess_rec, sess_last, sess_sequential, sess_calls,
                   not_sess>>

\* get_user_sessions: the records get_session finds for the ids in the set
GetUserSessions(user_id) == {s \in sess_index[user_id] : SessLive(s)}

\* time passes at the store, SessStepSecs seconds at a time; a call made in
\* sequence with the others completes within one such step
SessAdvance ==
    /\ clock + FromSecs(SessStepSecs) <= FromSecs(SessMaxSecs)
    /\ sess_sequential => SessQuiescent
    /\ clock' = clock + FromSecs(SessStepSecs)
    /\ UNCHANGED <<sess_vars, not_sess>>

SessNext ==
    \/ SessAdvance
    \/ \E p \in Callers :
        \/ \E sid \in Sids, user_id \in Users, ttl_secs \in SessTtlSecs :
              SaveSessionSet(p, sid, user_id, ttl_secs)
        \/ SaveSessionSadd(p)
        \/ \E sid \in Sids : DeleteSessionGet(p, sid)
        \/ DeleteSessionSrem(p)
        \/ DeleteSessionDel(p)
        \/ \E sid \in Sids : UpdateActivity(p, sid)
        \/ \E user_id \in Users : DeleteUserSessionsMembers(p, user_id)
        \/ \E sid \in Sids : DeleteUserSessionsDel(p, sid)
        \/ DeleteUserSessionsDelSet(p)

\* ======================================================================
\* Fixed-window rate limiter (redis/rate_limiter.rs), one client key, one
\* client issuing its calls one after another

\* rate_limit_key: the last segment of the key, (now.as_secs() / window).to_string()
FwKey == ToString(NowSecs \div fw_cfg.window)

\* the last segment of the name reset passes to DEL
FwResetKey == "*"

\* the names a key of this client can have at the store
FwKeyNames == {ToString(i) : i \in 0..(MaxClock \div TicksPerSec)} \cup {FwResetKey}

\* a name with no key at the store
NoFwKey == [present |-> FALSE, count |-> 0, has_ttl |-> FALSE, exp |-> 0]

NoFwLast == [op |-> "none", key |-> "", allowed |-> FALSE, remaining |-> 0,
             full |-> FALSE, after_reset |-> FALSE]

\* RedisFixedWindowRateLimiter::new over an empty store; limit and window are
\* what every call is made with
FwNew ==
    /\ fw_cfg \in [limit : 1..MaxLimit, window : 1..MaxWindowSecs]
    /\ fw_keys = [k \in FwKeyNames |-> NoFwKey]
    /\ fw_pc = "idle"
    /\ fw_local = [key |-> "", count |-> 0]
    /\ fw_last = NoFwLast
    /\ fw_calls = 0

\* the key exists at the store: written, not deleted, not expired
FwLive(k) == fw_keys[k].present /\ (fw_keys[k].has_ttl => clock < fw_keys[k].exp)

\* GET / the value INCR starts from
FwCount(k) == IF FwLive(k) THEN fw_keys[k].count ELSE 0

\* is_allowed: if count > limit { 0 } else { limit - count + 1 }
FwRemainingAfter(count) == IF count > fw_cfg.limit THEN 0 ELSE fw_cfg.limit - count + 1

\* remaining: if count >= limit { 0 } else { limit - count }
FwRemainingOf(count) == IF count >= fw_cfg.limit THEN 0 ELSE fw_cfg.limit - count

\* is_allowed returns Ok((count <= limit, remaining))
FwIsAllowedReturn(key, count) ==
    /\ fw_pc' = "idle"
    /\ fw_local' = [key |-> "", count |-> 0]
    /\ fw_last' = [op |-> "is_allowed", key |-> key,
                   allowed |-> count <= fw_cfg.limit,
                   remaining |-> FwRemainingAfter(count),
                   full |-> FALSE,
                   after_reset |-> fw_last.op = "reset" /\ fw_last.full
                                   /\ fw_last.key = key]

\* is_allowed: INCR rate_limit_key; a key the INCR creates has no expiry
FwIsAllowedIncr ==
    /\ fw_pc = "idle"
    /\ fw_calls < MaxCalls
    /\ fw_calls' = fw_calls + 1
    /\ LET count == FwCount(FwKey) + 1 IN
         /\ fw_keys' = [fw_keys EXCEPT ![FwKey] =
                IF FwLive(FwKey) THEN [@ EXCEPT !.count = count]
                ELSE [present |-> TRUE, count |-> 1, has_ttl |-> FALSE, exp |-> 0]]
         /\ IF count = 1
              THEN /\ fw_pc' = "expire"
                   /\ fw_local' = [key |-> FwKey, count |-> count]
                   /\ fw_last' = fw_last
              ELSE FwIsAllowedReturn(FwKey, count)
    /\ UNCHANGED <<clock, fw_cfg, not_fw>>

\* is_allowed, count == 1: EXPIRE rate_limit_key window.as_secs()
FwIsAllowedExpire ==
    /\ fw_pc = "expire"
    /\ fw_keys' = [fw_keys EXCEPT ![fw_local.key] =
           IF FwLive(fw_local.key)
             THEN [@ EXCEPT !.has_ttl = TRUE, !.exp = clock + FromSecs(fw_cfg.window)]
             ELSE @]
    /\ FwIsAllowedReturn(fw_local.key, fw_local.count)
    /\ UNCHANGED <<clock, fw_cfg, fw_calls, not_fw>>

\* is_allowed, count == 1: the EXPIRE fails (map_err .. ?) or the process
\* stops between the two commands
FwIsAllowedExpireFails ==
    /\ fw_pc = "expire"
    /\ fw_pc' = "idle"
    /\ fw_local' = [key |-> "", count |-> 0]
    /\ fw_last' = [NoFwLast EXCEPT !.op = "is_allowed_err", !.key = fw_local.key]
    /\ UNCHANGED <<clock, fw_cfg, fw_keys, fw_calls, not_fw>>

\* remaining: GET rate_limit_key parsed as u64, an error on a missing key
FwRemaining ==
    /\ fw_pc = "idle"
    /\ fw_last' = IF FwLive(FwKey)
                    THEN [NoFwLast EXCEPT !.op = "remaining", !.key = FwKey,
                                          !.remaining = FwRemainingOf(FwCount(FwKey))]
                    ELSE [NoFwLast EXCEPT !.op = "remaining_err", !.key = FwKey]
    /\ UNCHANGED <<clock, fw_cfg, fw_keys, fw_pc, fw_local, fw_calls, not_fw>>

\* reset: DEL "{prefix}:ratelimit:{key}:*", the key of that very name
FwReset ==
    /\ fw_pc = "idle"
    /\ fw_keys' = [fw_keys EXCEPT ![FwResetKey] = NoFwKey]
    /\ fw_last' = [NoFwLast EXCEPT !.op = "reset", !.key = FwKey,
                                   !.full = FwCount(FwKey) >= fw_cfg.limit]
    /\ UNCHANGED <<clock, fw_cfg, fw_pc, fw_local, fw_calls, not_fw>>

FwTick == Tick /\ UNCHANGED <<not_fw, fw_vars>>

FwNext ==
    \/ FwTick
    \/ FwIsAllowedIncr
    \/ FwIsAllowedExpire
    \/ FwIsAllowedExpireFails
    \/ FwRemaining
    \/ FwReset

\* ======================================================================
\* Retry policy (resilience/retry.rs): one execute at a time; durations in
\* ticks, the multiplier a whole number

RetryConfig ==
    [max_retries : 0..MaxRetries,
     initial_backoff : 1..MaxBackoff,
     max_backoff : 1..MaxBackoff,
     multiplier : 1..MaxMultiplier]

NoExecute == [invocations |-> 0, failures |-> 0, waits |-> <<>>, result |-> "none",
              error |-> 0]

\* RetryPolicy::new(config), execute not yet called
RetryPolicyNew ==
    /\ rt_cfg \in RetryConfig
    /\ rt_pc = "idle"
    /\ rt_backoff = 0
    /\ rt_attempt = 0
    /\ rt_hist = NoExecute

\* a.min(b) on Durations
DurationMin(a, b) == IF a <= b THEN a ELSE b

\* calculate_backoff: from_secs_f64(current.as_secs_f64() * multiplier).min(max_backoff)
CalculateBackoff(current) == DurationMin(current * rt_cfg.multiplier, rt_cfg.max_backoff)

\* execute: let mut backoff = self.config.initial_backoff; let mut attempt = 0
Execute ==
    /\ rt_pc \in {"idle", "returned"}
    /\ rt_pc' = "invoke"
    /\ rt_backoff' = rt_cfg.initial_backoff
    /\ rt_attempt' = 0
    /\ rt_hist' = NoExecute
    /\ UNCHANGED <<clock, rt_cfg, not_rt>>

\* execute returns
ExecuteReturn(result, error) ==
    /\ rt_pc' = "returned"
    /\ rt_hist' = [rt_hist EXCEPT !.invocations = @ + 1,
                                  !.failures = IF result = "Err" THEN @ + 1 ELSE @,
                                  !.result = result, !.error = error]

RetriesExhaustedEarly(attempt) == attempt >= rt_cfg.max_retries

\* attempt > self.config.max_retries
RetriesExhausted(attempt) == attempt > rt_cfg.max_retries

\* match f().await: the operation runs and succeeds or fails; its error is
\* named by the number of the invocation that produced it
Invoke(ok) ==
    /\ rt_pc = "invoke"
    /\ IF ok
         THEN /\ ExecuteReturn("Ok", 0)
              /\ UNCHANGED rt_attempt
         ELSE /\ rt_attempt' = rt_attempt + 1
              /\ IF RetriesExhausted(rt_attempt + 1)
                   THEN ExecuteReturn("Err", rt_hist.invocations + 1)
                   ELSE /\ rt_pc' = "sleep"
                        /\ rt_hist' = [rt_hist EXCEPT !.invocations = @ + 1,
                                                      !.failures = @ + 1]
    /\ UNCHANGED <<clock, rt_cfg, rt_backoff, not_rt>>

\* tokio::time::sleep(backoff).await; backoff = self.calculate_backoff(backoff)
Sleep ==
    /\ rt_pc = "sleep"
    /\ rt_pc' = "invoke"
    /\ rt_hist' = [rt_hist EXCEPT !.waits = Append(@, rt_backoff)]
    /\ rt_backoff' = CalculateBackoff(rt_backoff)
    /\ UNCHANGED <<clock, rt_cfg, rt_attempt, not_rt>>

RtNext ==
    \/ Execute
    \/ \E ok \in BOOLEAN : Invoke(ok)
    \/ Sleep

\* ======================================================================
\* Specifications

\* the other components, untouched
RlIdle == RlNew /\ rl_cfg = [limit |-> 1, window |-> FromSecs(1)] /\ rl_sequential = TRUE
CbIdle == CbNew /\ config = IdleConfig /\ cb_sequential = TRUE
OtpIdle == OtpNew /\ otp_max = 1 /\ otp_sequential = TRUE
BhIdle == BulkheadNew /\ bh_k = 1
SessIdle == SessionStoreNew /\ sess_sequential = TRUE
FwIdle == FwNew /\ fw_cfg = [limit |-> 1, window |-> 1]
RtIdle == RetryPolicyNew /\ rt_cfg = [max_retries |-> 0, initial_backoff |-> 1,
                                      max_backoff |-> 1, multiplier |-> 1]

\* concurrent callers of one breaker
InitCb == clock = 0 /\ CbNew /\ cb_sequential = FALSE /\ LockNew /\ RlIdle /\ OtpIdle /\ BhIdle /\ SessIdle /\ FwIdle /\ RtIdle
SpecCb == InitCb /\ [][CbNext]_vars

\* sequential calls: a call starts only when no other call is in flight
InitCbSeq == clock = 0 /\ CbNew /\ cb_sequential = TRUE /\ LockNew /\ RlIdle /\ OtpIdle /\ BhIdle /\ SessIdle /\ FwIdle /\ RtIdle
SpecCbSeq == InitCbSeq /\ [][CbNext]_vars

\* callers of one lock key
InitLock == clock = 0 /\ LockNew /\ CbIdle /\ RlIdle /\ OtpIdle /\ BhIdle /\ SessIdle /\ FwIdle /\ RtIdle
SpecLock == InitLock /\ [][LockNext]_vars

\* concurrent callers of the sliding-window limiter on one key
InitRl == clock = 0 /\ RlNew /\ rl_sequential = FALSE /\ CbIdle /\ LockNew /\ OtpIdle /\ BhIdle /\ SessIdle /\ FwIdle /\ RtIdle
SpecRl == InitRl /\ [][RlNext]_vars

\* sequential calls of the sliding-window limiter on one key
InitRlSeq == clock = 0 /\ RlNew /\ rl_sequential = TRUE /\ CbIdle /\ LockNew /\ OtpIdle /\ BhIdle /\ SessIdle /\ FwIdle /\ RtIdle
SpecRlSeq == InitRlSeq /\ [][RlNext]_vars

\* sequential store and verify calls on one OTP key
InitOtpSeq == clock = 0 /\ OtpNew /\ otp_sequential = TRUE /\ CbIdle /\ LockNew /\ RlIdle /\ BhIdle /\ SessIdle /\ FwIdle /\ RtIdle
SpecOtpSeq == InitOtpSeq /\ [][OtpNext]_vars

\* concurrent store and verify calls on one OTP key
InitOtp == clock = 0 /\ OtpNew /\ otp_sequential = FALSE /\ CbIdle /\ LockNew /\ RlIdle /\ BhIdle /\ SessIdle /\ FwIdle /\ RtIdle
SpecOtp == InitOtp /\ [][OtpNext]_vars

\* sequential calls on the session registry
InitSessSeq == clock = 0 /\ SessionStoreNew /\ sess_sequential = TRUE /\ CbIdle /\ LockNew
               /\ RlIdle /\ OtpIdle /\ BhIdle /\ FwIdle /\ RtIdle
SpecSessSeq == InitSessSeq /\ [][SessNext]_vars

\* concurrent calls on the session registry
InitSess == clock = 0 /\ SessionStoreNew /\ sess_sequential = FALSE /\ CbIdle /\ LockNew
            /\ RlIdle /\ OtpIdle /\ BhIdle /\ FwIdle /\ RtIdle
SpecSess == InitSess /\ [][SessNext]_vars

\* one client of the fixed-window limiter
InitFw == clock = 0 /\ FwNew /\ CbIdle /\ LockNew /\ RlIdle /\ OtpIdle /\ BhIdle /\ SessIdle /\ RtIdle
SpecFw == InitFw /\ [][FwNext]_vars

\* one caller of a retry policy
InitRt == clock = 0 /\ RetryPolicyNew /\ CbIdle /\ LockNew /\ RlIdle /\ OtpIdle /\ BhIdle
          /\ SessIdle /\ FwIdle
SpecRt == InitRt /\ [][RtNext]_vars

\* tasks sharing one bulkhead
InitBh == clock = 0 /\ BulkheadNew /\ CbIdle /\ LockNew /\ RlIdle /\ OtpIdle /\ SessIdle /\ FwIdle /\ RtIdle
SpecBh == InitBh /\ [][BhNext]_vars

\* the same under fair scheduling: a task that can take a step of its own
\* takes it, and a running operation returns
SpecBhFair == SpecBh /\ \A t \in Tasks : WF_vars(BhProgress(t))

\* ---------------------------------------------------------------- claims
\* real time since the last transition_to_open stamped its opening time
SinceOpened == clock - cb_hist.opened_at

\* C1: with sequential calls, a call that found the breaker Closed leaves it
\* Closed while fewer than failure_threshold failures have occurred since the
\* last success, and leaves it Open exactly when its failure makes that count
\* reach failure_threshold.
C1_ClosedUntilThreshold ==
    (CbQuiescent /\ cb_hist.last_entry = "Closed") =>
        IF cb_hist.last_result = "ExecutionError"
           /\ cb_hist.streak >= config.failure_threshold
          THEN state = "Open" /\ cb_hist.streak = config.failure_threshold
          ELSE state = "Closed" /\ cb_hist.streak < config.failure_threshold

\* a success forgave an earlier failure, then two failures in a row opened it
C1_Witness ==
    /\ CbQuiescent
    /\ cb_hist.last_entry = "Closed"
    /\ config.failure_threshold = 2
    /\ cb_hist.invocations = 4
    /\ cb_hist.streak = 2
    /\ state = "Open"

\* C2: while the breaker is Open and less than timeout has elapsed since it
\* opened, a call returns CircuitBreakerError::Open and the wrapped operation is
\* not invoked.
C2_OpenRejectsBeforeTimeout ==
    [][\A p \in Callers :
          (cb_pc[p] = "sar_now" /\ cb_pc'[p] # "sar_now"
           /\ state = "Open" /\ SinceOpened < config.timeout)
          => /\ cb_pc'[p] = "idle"
             /\ cb_hist'.last_result = "Open"
             /\ cb_hist'.invocations = cb_hist.invocations]_vars

\* C3: once timeout has elapsed since the breaker opened, the next call moves it
\* to HalfOpen and invokes the operation; from HalfOpen, success_threshold
\* consecutive successes close it and a single failure re-opens it.
C3_ProbeAfterTimeout ==
    /\ [][\A p \in Callers :
            (cb_pc[p] = "sar_now" /\ cb_pc'[p] # "sar_now"
             /\ state = "Open" /\ SinceOpened >= config.timeout)
            => cb_pc'[p] = "tho_state"]_vars
    /\ [][\A p \in Callers :
            cb_pc[p] = "tho_successes" => state = "HalfOpen" /\ cb_pc'[p] \in {"tho_successes", "exec"}]_vars
    /\ [](CbQuiescent /\ cb_hist.last_entry \in {"Open", "HalfOpen"} =>
            CASE cb_hist.last_result = "ExecutionError" -> state = "Open"
              [] cb_hist.last_result = "Ok" ->
                    IF cb_hist.probe_ok >= config.success_threshold
                      THEN state = "Closed" /\ cb_hist.probe_ok = config.success_threshold
                      ELSE state = "HalfOpen"
              [] OTHER -> state = "Open")

\* the edges of the state machine
CbEdges == {<<"Closed", "Open">>, <<"Open", "HalfOpen">>,
            <<"HalfOpen", "Open">>, <<"HalfOpen", "Closed">>}

\* C4: under any interleaving of concurrent calls, every change of the state
\* variable follows one of the four edges.
C4_OnlyDefinedEdges == [][state' # state => <<state, state'>> \in CbEdges]_vars
\* a caller holds the lock from an acquire that returned true until it calls
\* release or its ttl elapses
Holder(p) == lock_held[p].acq /\ clock < lock_held[p].until

Holders == {p \in Callers : Holder(p)}

GrantInForce ==
    lock_hist.granted /\ ~lock_hist.released /\ clock < lock_hist.until

\* C6: an acquire gets true exactly when no grant is in force, so of two
\* concurrent acquires on a free key exactly one gets true, and every further
\* acquire before a release or the expiry gets false.
C6_ExactlyOneAcquires ==
    [][\A p \in Callers :
          (lock_pc[p] = "acquiring" /\ lock_pc'[p] = "idle" /\ lock_arg[p] > 0)
          => lock_result'[p] = (IF GrantInForce THEN "false" ELSE "true")]_vars

\* two callers raced for the free key: one got true, the other false
C6_Witness ==
    /\ lock_hist.raced
    /\ GrantInForce
    /\ \A p \in Callers : lock_pc[p] = "idle"
    /\ \E p \in Callers : /\ lock_result[p] = "true"
                            /\ \A q \in Callers \ {p} : lock_result[q] = "false"
\* C7: under any interleaving of concurrent is_allowed callers, the number of
\* admitted calls whose timestamps fall within any interval of length window
\* never exceeds limit (stated here for the runs in which the store executed no
\* script later than the instant of its timestamp: the claim covers more).
C7_WindowNeverExceedsLimit ==
    ~rl_last.late =>
        \A a \in 0..MaxClock :
            Cardinality({i \in DOMAIN rl_log :
                            rl_log[i] >= a /\ rl_log[i] < a + rl_cfg.window}) <= rl_cfg.limit

\* C8: with sequential calls on one key, each executed by the store at the
\* instant of its timestamp (none late), a call for which every earlier admitted call lies in
\* its window is allowed with remaining limit - 1 - (their number) while fewer
\* than limit came before and gets (false, 0) after that; a call made after the
\* window has fully elapsed since the earlier calls gets (true, limit - 1).
C8_CountsDownThenDenies ==
    (rl_last.done /\ ~rl_last.late
     /\ (rl_last.prior = rl_last.total \/ rl_last.prior = 0)) =>
        IF rl_last.prior < rl_cfg.limit
          THEN rl_last.allowed /\ rl_last.remaining = rl_cfg.limit - 1 - rl_last.prior
          ELSE ~rl_last.allowed /\ rl_last.remaining = 0

C11_AttemptsNeverExceedMax ==
    (otp_max >= 1 /\ OtpLive) => otp_rec.attempts <= otp_max

\* C12: with sequential calls, once the ttl passed to store has elapsed since
\* the code was issued the record is absent, whatever number of mismatching
\* verifies was made in between.
C12_MismatchDoesNotExtend ==
    (otp_hist.issued /\ clock >= otp_hist.issued_until) => ~OtpLive

BhQuiescent == \A t \in Tasks : bh_pc[t] = "idle"

\* C13: for a bulkhead of capacity k and any interleaving of call and try_call,
\* at most k wrapped operations are executing and current_count() never
\* exceeds k.
C13_AtMostKInside ==
    /\ Cardinality(Executing) <= bh_k
    /\ bh_count <= bh_k

\* C14: whenever try_call is rejected because no permit is free, the Rejected
\* error reports max = k and current = k, whatever the other tasks are doing
\* (stated here for the runs in which no call was abandoned).
C14_RejectedReportsFull ==
    (bh_rej.seen /\ bh_hist.abandons = 0) =>
        (bh_rej.max = bh_k /\ bh_rej.current = bh_k)

\* C15: a bulkhead never leaks permits: the free permits and the permits held
\* by the calls in flight always add up to the capacity, so when every call has
\* finished (value returned, error returned, or abandoned) all k are free.
C15_NoPermitLeak ==
    /\ bh_permits + Cardinality(PermitHolders) = bh_k
    /\ BhQuiescent => bh_permits = bh_k

\* every call has finished: one was abandoned while its operation ran (the
\* counter still shows it), the others returned their values
C15_Witness ==
    /\ BhQuiescent
    /\ bh_hist.abandons >= 1
    /\ bh_count = 1
    /\ bh_rej.seen /\ bh_rej.current = bh_k + 1
    /\ bh_permits = bh_k

CallStartsFull(t) ==
    /\ bh_pc[t] = "idle" /\ bh_pc'[t] # "idle" /\ bh_kind'[t] = "call"
    /\ ~PermitFree

C18_CountersResetOnTransition ==
    [][\A p \in Callers :
          (cb_pc[p] \in {"to_time", "tho_successes", "tc_successes"}
           /\ cb_pc'[p] # cb_pc[p]) =>
              (failures' = 0 /\ successes' = 0)]_vars

\* C19: whenever no session operation is in flight, every session id in a
\* user's reverse set has a live primary record: a session removed by
\* delete_session or by the expiry of its TTL is in no reverse set.
C19_IndexHasLiveRecords ==
    SessQuiescent => \A u \in Users : \A s \in sess_index[u] : SessLive(s)

\* C20: update_activity never leaves a session with less time to live than
\* it had, leaves the payload as it was, and creates no record for an id
\* that has none.
C20_RefreshNeverShortens ==
    sess_last.done =>
        /\ ~sess_last.shortened
        /\ sess_last.same_payload
        /\ (~sess_last.live_before => ~sess_last.present_after)

\* C21: no key exists without a TTL: whenever no call of the fixed-window
\* limiter is in flight, also after a failure between its two store commands,
\* every key it has written carries an expiry.
C21_EveryKeyHasTtl ==
    fw_pc = "idle" => \A k \in FwKeyNames : FwLive(k) => fw_keys[k].has_ttl

\* C22: after reset on a key that is at its limit, the next is_allowed in the
\* same window is admitted.
C22_ResetClears ==
    (fw_last.op = "is_allowed" /\ fw_last.after_reset) => fw_last.allowed

\* C23: execute invokes the operation until its first success or its
\* (max_retries + 1)-th failure: a success after j <= max_retries failures is
\* returned after j + 1 invocations; when every invocation fails there are
\* max_retries + 1 of them and the error of the last one is returned.
C23_InvokesUntilSuccessOrExhausted ==
    /\ rt_hist.invocations <= rt_cfg.max_retries + 1
    /\ rt_pc \in {"invoke", "sleep"} => rt_hist.failures = rt_hist.invocations
    /\ rt_pc = "returned" =>
          IF rt_hist.result = "Ok"
            THEN /\ rt_hist.failures <= rt_cfg.max_retries
                 /\ rt_hist.invocations = rt_hist.failures + 1
                 /\ Len(rt_hist.waits) = rt_hist.failures
            ELSE /\ rt_hist.result = "Err"
                 /\ rt_hist.failures = rt_cfg.max_retries + 1
                 /\ rt_hist.invocations = rt_cfg.max_retries + 1
                 /\ rt_hist.error = rt_hist.invocations

\* the operation failed twice and succeeded on the third invocation
C23_Witness ==
    /\ rt_pc = "returned" /\ rt_hist.result = "Ok"
    /\ rt_cfg.max_retries = 2 /\ rt_hist.failures = 2 /\ rt_hist.invocations = 3

\* multiplier^n
RECURSIVE Pow(_, _)
Pow(m, n) == IF n = 0 THEN 1 ELSE m * Pow(m, n - 1)

\* C24: the wait before re-invocation n (n = 0 after the first failure) is
\* min(initial_backoff * multiplier^n, max_backoff), whatever the
\* configuration; no wait exceeds max_backoff.
C24_WaitIsClampedExponential ==
    \A i \in DOMAIN rt_hist.waits :
        rt_hist.waits[i] = DurationMin(rt_cfg.initial_backoff * Pow(rt_cfg.multiplier, i - 1),
                                       rt_cfg.max_backoff)

\* C25: for one issued code and any interleaving of verify calls
\* (max_attempts >= 1), at most max_attempts verify calls with a wrong
\* candidate get Invalid or MaxAttemptsExceeded.
C25_WrongAnswersBounded ==
    (otp_max >= 1 /\ otp_hist.issued) => otp_hist.answers <= otp_max

\* C26: for one store and any interleaving of verify calls, at most one
\* verify returns Valid, and after a Valid the record stays absent until the
\* next store.
C26_SingleUse ==
    /\ otp_hist.valids <= 1
    /\ otp_hist.valids >= 1 => ~OtpLive

\* C27: with concurrent callers, the state goes from Open to HalfOpen only
\* when at least timeout has elapsed since the most recent transition into
\* Open, the elapsed time taken in whole seconds as should_attempt_reset
\* takes it.
C27_HalfOpenOnlyAfterTimeout ==
    [][\A p \in Callers :
          (cb_pc[p] = "tho_state" /\ cb_pc'[p] # "tho_state" /\ state = "Open")
          => FromSecs(NowSecs - cb_hist.opened_at \div TicksPerSec) >= config.timeout]_vars

\* C28: whatever the interleaving of delete_user_sessions and save_session,
\* once the calls have returned every live session record is a member of its
\* user's reverse set.
C28_LiveRecordsAreIndexed ==
    SessQuiescent =>
        \A s \in Sids : SessLive(s) => s \in sess_index[sess_rec[s].user_id]

\* C29: current_count() is 0 whenever no call is in flight, also after a
\* call was abandoned while its operation was running.
C29_CountBackToZero ==
    BhQuiescent => bh_count = 0

\* C30: the remaining value an allowed is_allowed returned is what remaining
\* returns right after it in the same window, which is also the number of
\* further calls the window admits.
C30_RemainingAgrees ==
    (fw_pc = "idle" /\ fw_last.op = "is_allowed" /\ fw_last.allowed /\ fw_last.key = FwKey)
        => fw_last.remaining = FwRemainingOf(FwCount(FwKey))
====
